---- MODULE Spec2Model ----
(***************************************************************************)
(* Model of SecurePasswordManager (src/Passtest.py): one manager instance  *)
(* with its in-memory account table `users` and the JSON file `db` behind  *)
(* it.  Cryptography is symbolic: a derived key is the term built from the *)
(* secret and the salt, an envelope is iv + tag + ciphertext and opens     *)
(* only under the key that sealed it.  Random bytes are drawn from small   *)
(* sets, so equal draws (collisions) happen.                               *)
(* Spec is one instance whose writes may fail; SpecInstances has a second  *)
(* instance on the same file, SpecCrash a process that dies in             *)
(* save_database, SpecAccounts a table with two accounts.                  *)
(***************************************************************************)
EXTENDS Integers, Sequences, FiniteSets, TLC

(* ------------------------------ bounds --------------------------------- *)
\* generate_salt draws its 16 bytes from 0..MaxSalt, encrypt_data its iv from
\* 0..MaxIv and create_account its master key from 0..MaxKey
MaxSalt == 1
MaxIv == 0
MaxKey == 0
\* recover_account is tried with the codes issued at positions 1..MaxCodePos
\* (and with a code that was never issued); collisions among the issued
\* codes are placed at these positions too
MaxCodePos == 3
\* number of state-changing calls in one run
MaxCalls == 3
\* number of writes of the store that the environment lets fail in one run
MaxIOFailures == 1

(* ------------------------- program constants --------------------------- *)
NumRecoveryCodes == 10
SaltLen == 16
IvLen == 16
MasterKeyLen == 32

(* ------------------------------ inputs --------------------------------- *)
\* the usernames an account table can hold, and those the calls are made with
AllUsernames == {"alice", "bob"}
Usernames == {"alice"}
MasterPasswords == {"pw1", "pw2"}
Services == {"github", "mail"}
Plaintexts == {"s3cr3t", "hunter2"}
\* the 8-digit strings secrets.choice can produce: one per position, and one
\* that create_account never draws in this model
CodeStr ==
  <<"00000001", "00000002", "00000003", "00000004", "00000005",
    "00000006", "00000007", "00000008", "00000009", "00000010">>
UnissuedCode == "00000000"
TryCodes == {UnissuedCode} \cup {CodeStr[i] : i \in 1..MaxCodePos}
SaveOutcomes == {"ok", "open_failed", "write_failed"}

(* ------------------------- leaf operations ----------------------------- *)
None == <<"None">>

\* os.urandom(length): the byte strings a draw of that length can give, out
\* of max + 1 values
urandom(length, max) == {<<"rand", length, v>> : v \in 0..max}

generate_salt == urandom(SaltLen, MaxSalt)
Ivs == urandom(IvLen, MaxIv)
MasterKeys == urandom(MasterKeyLen, MaxKey)

\* str.encode() / bytes.decode()
encode(s) == <<"utf8", s>>
decode(b) == b[2]

\* base64.b64encode(x).decode('ascii') / base64.b64decode(s.encode('ascii'))
b64encode(x) == <<"b64", x>>
b64decode(s) == s[2]

\* PBKDF2-HMAC-SHA256 of password.encode() with the salt
derive_key(password, salt) == <<"pbkdf2", encode(password), salt>>

\* encrypt_data that returns its input unsealed
encrypt_data_Unsealed(data, key, iv) == data

\* AES-GCM: iv + tag + ciphertext
encrypt_data(data, key, iv) ==
  <<"env", iv, <<"tag", key, iv, data>>, <<"ct", key, iv, data>>>>

DecryptFailed == <<"InvalidTag">>

\* splits iv / tag / ciphertext and verifies the tag under the key
decrypt_data(encrypted_data, key) ==
  IF encrypted_data[1] = "env"
     /\ encrypted_data[4][2] = key
     /\ encrypted_data[3] = <<"tag", key, encrypted_data[2], encrypted_data[4][4]>>
  THEN encrypted_data[4][4]
  ELSE DecryptFailed

(* ------------------------------ state ---------------------------------- *)
VARIABLES
  users,      \* self.users: username -> account record
  db,         \* content of secure_password_db.json
  ret,        \* the last call: operation, arguments, what it returned
  issued,     \* per username, the recovery codes create_account generated
  genKey,     \* per username, the master key create_account generated
  curPw,      \* per username, the password of create_account or of the last
              \* recover_account that returned success
  used,       \* per username, the codes of the recover_account calls that
              \* returned success, in order
  stored,     \* per username and service, the plaintexts add_password put
              \* into the table, in order
  calls,      \* state-changing calls so far
  faults,     \* failed writes so far
  peer        \* a second manager instance on the same file: whether it was
              \* constructed, and its self.users

vars == <<users, db, ret, issued, genKey, curPw, used, stored, calls, faults, peer>>

EmptyTable == [u \in {} |-> None]

\* json.dump(self.users, f) / json.load(f)
JsonDump(table) == [kind |-> "json", doc |-> table]
NoFile == [kind |-> "absent", doc |-> EmptyTable]
PartialFile == [kind |-> "partial", doc |-> EmptyTable]

\* no second instance has been constructed
NotStarted == [up |-> FALSE, users |-> EmptyTable]

load_database(file) ==
  IF file.kind = "json" THEN file.doc ELSE EmptyTable

\* save_database: the file after the write, by the outcome of the write
save_database(table, file, io) ==
  CASE io = "ok" -> JsonDump(table)
    [] io = "open_failed" -> file
    [] OTHER -> PartialFile

\* an assignment that drops the records of the other usernames
Put_DropsOthers(table, username, rec) ==
  [u \in {username} |-> rec]

\* self.users[username] = rec
Put(table, username, rec) ==
  [u \in DOMAIN table \cup {username} |-> IF u = username THEN rec ELSE table[u]]

\* saves: the save_database calls the call made
Call(op, username, secret, service, ok, raised, msg, val, saves) ==
  [op |-> op, user |-> username, secret |-> secret, service |-> service,
   ok |-> ok, raised |-> raised, msg |-> msg, val |-> val, saves |-> saves]

\* the outcomes the environment may still give a write
Outcomes == IF faults < MaxIOFailures THEN SaveOutcomes ELSE {"ok"}

Init ==
  /\ db = NoFile
  /\ users = load_database(NoFile)
  /\ ret = Call("init", "", "", "", TRUE, FALSE, "", None, 0)
  /\ issued = [u \in AllUsernames |-> <<>>]
  /\ genKey = [u \in AllUsernames |-> None]
  /\ curPw = [u \in AllUsernames |-> ""]
  /\ used = [u \in AllUsernames |-> <<>>]
  /\ stored = [u \in AllUsernames |-> [s \in {} |-> <<>>]]
  /\ calls = 0
  /\ faults = 0
  /\ peer = NotStarted

(* --------------------------- create_account ---------------------------- *)
\* the draws of the loop over range(10): position dupAt draws the code of
\* position 1 (dupAt = 1: ten different codes), and with `identical` also
\* the salt and the iv of position 1
LoopDraws(dupAt, identical) ==
  [i \in 1..NumRecoveryCodes |->
     [code |-> IF i = dupAt THEN CodeStr[1] ELSE CodeStr[i],
      salt |-> <<"rand", SaltLen, IF identical /\ i = dupAt THEN 1 ELSE i>>,
      iv   |-> <<"rand", IvLen, IF identical /\ i = dupAt THEN 1 ELSE i>>]]

RecoveryEntry(master_key, d) ==
  [salt |-> b64encode(d.salt),
   encrypted_key |-> b64encode(encrypt_data(master_key, derive_key(d.code, d.salt), d.iv))]

NewAccount(master_password, salt, iv, master_key, draws) ==
  [salt |-> b64encode(salt),
   encrypted_master_key |->
     b64encode(encrypt_data(master_key, derive_key(master_password, salt), iv)),
   passwords |-> [s \in {} |-> None],
   recovery_data |-> [i \in 1..NumRecoveryCodes |-> RecoveryEntry(master_key, draws[i])]]

\* create_account without the check of line 70: the record is replaced
CreateDuplicate_Overwrites(username, master_password) ==
  /\ username \in DOMAIN users
  /\ users' = Put(users, username,
                  NewAccount(master_password, <<"rand", SaltLen, 0>>, <<"rand", IvLen, 0>>,
                             <<"rand", MasterKeyLen, 0>>, LoopDraws(1, FALSE)))
  /\ db' = JsonDump(users')
  /\ ret' = Call("create", username, master_password, "", TRUE, FALSE,
                 "Account created successfully", None, 1)
  /\ UNCHANGED <<issued, genKey, curPw, used, stored, calls, faults, peer>>

CreateDuplicate(username, master_password) ==
  /\ username \in DOMAIN users
  /\ ret' = Call("create", username, master_password, "", FALSE, FALSE,
                 "Username already exists", <<>>, 0)
  /\ UNCHANGED <<users, db, issued, genKey, curPw, used, stored, calls, faults, peer>>

CreateNew(username, master_password) ==
  /\ username \notin DOMAIN users
  /\ calls < MaxCalls
  /\ \E salt \in generate_salt, iv \in Ivs, master_key \in MasterKeys,
        dupAt \in 1..MaxCodePos, identical \in BOOLEAN, io \in Outcomes :
       /\ identical => dupAt > 1
       /\ LET draws == LoopDraws(dupAt, identical)
              codes == [i \in 1..NumRecoveryCodes |-> draws[i].code]
              table == Put(users, username,
                           NewAccount(master_password, salt, iv, master_key, draws))
          IN /\ users' = table
             /\ db' = save_database(table, db, io)
             /\ ret' = IF io = "ok"
                       THEN Call("create", username, master_password, "", TRUE, FALSE,
                                 "Account created successfully", codes, 1)
                       ELSE Call("create", username, master_password, "", FALSE, TRUE,
                                 "OSError", None, 1)
             /\ issued' = [issued EXCEPT ![username] = codes]
             /\ genKey' = [genKey EXCEPT ![username] = master_key]
             /\ curPw' = [curPw EXCEPT ![username] = master_password]
             /\ faults' = IF io = "ok" THEN faults ELSE faults + 1
  /\ calls' = calls + 1
  /\ UNCHANGED <<used, stored, peer>>

create_account(username, master_password) ==
  \/ CreateDuplicate(username, master_password)
  \/ CreateNew(username, master_password)

(* -------------------------------- login -------------------------------- *)
\* what login returns on a table: <<success, message, master_key>>
login(table, username, master_password) ==
  IF username \notin DOMAIN table
  THEN <<FALSE, "User not found", None>>
  ELSE LET user_data == table[username]
           salt == b64decode(user_data.salt)
           encryption_key == derive_key(master_password, salt)
           encrypted_master_key == b64decode(user_data.encrypted_master_key)
           master_key == decrypt_data(encrypted_master_key, encryption_key)
       IN IF master_key # DecryptFailed
          THEN <<TRUE, "Login successful", master_key>>
          ELSE <<FALSE, "Invalid password", None>>

\* login that writes the store on its way out
Login_Saving(username, master_password) ==
  /\ LET r == login(users, username, master_password)
     IN ret' = Call("login", username, master_password, "", r[1], FALSE, r[2], r[3], 1)
  /\ db' = JsonDump(users)
  /\ UNCHANGED <<users, issued, genKey, curPw, used, stored, calls, faults, peer>>

Login(username, master_password) ==
  /\ LET r == login(users, username, master_password)
     IN ret' = Call("login", username, master_password, "", r[1], FALSE, r[2], r[3], 0)
  /\ UNCHANGED <<users, db, issued, genKey, curPw, used, stored, calls, faults, peer>>

(* ----------------------------- add_password ---------------------------- *)
\* an assignment that keeps the entry a service already has
SetItem_KeepsOld(passwords, service, value) ==
  IF service \in DOMAIN passwords THEN passwords
  ELSE [s \in DOMAIN passwords \cup {service} |->
          IF s = service THEN value ELSE passwords[s]]

\* passwords[service] = value
SetItem(passwords, service, value) ==
  [s \in DOMAIN passwords \cup {service} |-> IF s = service THEN value ELSE passwords[s]]

AddRejected(username, master_password, service, password) ==
  /\ LET r == login(users, username, master_password)
     IN /\ ~r[1]
        /\ ret' = Call("add", username, master_password, service, FALSE, FALSE, r[2], None, 0)
  /\ UNCHANGED <<users, db, issued, genKey, curPw, used, stored, calls, faults, peer>>

AddStored(username, master_password, service, password) ==
  /\ username \in DOMAIN users
  /\ calls < MaxCalls
  /\ LET r == login(users, username, master_password)
         master_key == r[3]
     IN /\ r[1]
        /\ \E iv \in Ivs, io \in Outcomes :
             LET encrypted_password == encrypt_data(encode(password), master_key, iv)
                 old == users[username]
                 rec == [old EXCEPT !.passwords =
                           SetItem(old.passwords, service, b64encode(encrypted_password))]
                 table == Put(users, username, rec)
             IN /\ users' = table
                /\ db' = save_database(table, db, io)
                /\ ret' = IF io = "ok"
                          THEN Call("add", username, master_password, service, TRUE, FALSE,
                                    "Password added successfully", None, 1)
                          ELSE Call("add", username, master_password, service, FALSE, TRUE,
                                    "OSError", None, 1)
                /\ faults' = IF io = "ok" THEN faults ELSE faults + 1
  /\ stored' = [stored EXCEPT ![username] =
                  [s \in DOMAIN stored[username] \cup {service} |->
                     IF s \notin DOMAIN stored[username] THEN <<password>>
                     ELSE IF s = service THEN Append(stored[username][s], password)
                     ELSE stored[username][s]]]
  /\ calls' = calls + 1
  /\ UNCHANGED <<issued, genKey, curPw, used, peer>>

add_password(username, master_password, service, password) ==
  \/ AddRejected(username, master_password, service, password)
  \/ AddStored(username, master_password, service, password)

(* ----------------------------- get_password ---------------------------- *)
\* get_password that looks the service up before it authenticates
get_password_ServiceFirst(table, username, master_password, service) ==
  IF username \notin DOMAIN table
  THEN <<FALSE, "User not found", None>>
  ELSE IF service \notin DOMAIN table[username].passwords
  THEN <<FALSE, "No password stored", None>>
  ELSE LET r == login(table, username, master_password)
       IN IF ~r[1] THEN <<FALSE, r[2], None>>
          ELSE <<TRUE, "Password for service",
                 <<"str", decode(decrypt_data(b64decode(table[username].passwords[service]),
                                              r[3]))>> >>

\* what get_password returns on a table: <<success, message, password>>
get_password(table, username, master_password, service) ==
  IF username \notin DOMAIN table
  THEN <<FALSE, "User not found", None>>
  ELSE LET r == login(table, username, master_password)
           master_key == r[3]
           user_data == table[username]
       IN IF ~r[1] THEN <<FALSE, r[2], None>>
          ELSE IF service \notin DOMAIN user_data.passwords
          THEN <<FALSE, "No password stored", None>>
          ELSE LET encrypted_password == b64decode(user_data.passwords[service])
                   decrypted_password == decrypt_data(encrypted_password, master_key)
               IN IF decrypted_password # DecryptFailed
                  THEN <<TRUE, "Password for service", <<"str", decode(decrypted_password)>> >>
                  ELSE <<FALSE, "Failed to decrypt password", None>>

GetPassword(username, master_password, service) ==
  /\ LET r == get_password(users, username, master_password, service)
     IN ret' = Call("get", username, master_password, service, r[1], FALSE, r[2], r[3], 0)
  /\ UNCHANGED <<users, db, issued, genKey, curPw, used, stored, calls, faults, peer>>

(* ---------------------------- recover_account -------------------------- *)
\* a remove that leaves the list as it is
ListRemove_Nothing(lst, x) == lst

\* list.remove(x): drops the first element equal to x
ListRemove(lst, x) ==
  LET i == CHOOSE i \in 1..Len(lst) : lst[i] = x /\ \A j \in 1..(i - 1) : lst[j] # x
  IN SubSeq(lst, 1, i - 1) \o SubSeq(lst, i + 1, Len(lst))

FailKinds == SaveOutcomes \ {"ok"}

\* what the environment gives the k-th matching entry of one call: the new
\* salt, the iv and the outcome of the write; at most r writes fail
Envs(r) ==
  UNION { { [k \in 1..(j + 1) |->
              [salt |-> ss[k], iv |-> vv[k], io |-> IF k <= j THEN kk[k] ELSE "ok"]] :
            ss \in [1..(j + 1) -> generate_salt],
            vv \in [1..(j + 1) -> Ivs],
            kk \in [1..j -> FailKinds] } : j \in 0..r }

\* the try block up to decrypt_data: the master key, or the failure
TryEntry(recovery_entry, recovery_code) ==
  LET recovery_salt == b64decode(recovery_entry.salt)
      recovery_key == derive_key(recovery_code, recovery_salt)
      encrypted_key == b64decode(recovery_entry.encrypted_key)
  IN decrypt_data(encrypted_key, recovery_key)

Opens(recovery_entry, recovery_code) ==
  TryEntry(recovery_entry, recovery_code) # DecryptFailed

\* a rotation that seals a newly drawn key instead of the recovered one
Rotate_FreshKey(user_data, master_key, new_master_password, new_salt, iv, recovery_entry) ==
  [user_data EXCEPT
     !.salt = b64encode(new_salt),
     !.encrypted_master_key =
        b64encode(encrypt_data(<<"rand", MasterKeyLen, MaxKey + 1>>,
                               derive_key(new_master_password, new_salt), iv)),
     !.recovery_data = ListRemove(user_data.recovery_data, recovery_entry)]

\* a rotation that starts the account over with an empty password map
Rotate_ClearsVault(user_data, master_key, new_master_password, new_salt, iv, recovery_entry) ==
  [user_data EXCEPT
     !.salt = b64encode(new_salt),
     !.encrypted_master_key =
        b64encode(encrypt_data(master_key, derive_key(new_master_password, new_salt), iv)),
     !.passwords = [s \in {} |-> None],
     !.recovery_data = ListRemove(user_data.recovery_data, recovery_entry)]

\* a matching entry was found: the new salt and envelope of the master key,
\* and the entry taken off the list
Rotate(user_data, master_key, new_master_password, new_salt, iv, recovery_entry) ==
  LET new_encryption_key == derive_key(new_master_password, new_salt)
      new_encrypted_master_key == encrypt_data(master_key, new_encryption_key, iv)
  IN [user_data EXCEPT
        !.salt = b64encode(new_salt),
        !.encrypted_master_key = b64encode(new_encrypted_master_key),
        !.recovery_data = ListRemove(user_data.recovery_data, recovery_entry)]

\* the for loop over user_data['recovery_data'], from list index idx on, with
\* k - 1 matching entries met before
RECURSIVE RecoverScan(_, _, _, _, _, _, _, _)
RecoverScan(table, file, username, recovery_code, new_master_password, idx, k, env) ==
  LET user_data == table[username]
      lst == user_data.recovery_data
  IN IF idx > Len(lst)
     THEN [users |-> table, db |-> file, ok |-> FALSE, msg |-> "Invalid recovery code",
           val |-> None, saves |-> k - 1]
     ELSE LET recovery_entry == lst[idx]
              master_key == TryEntry(recovery_entry, recovery_code)
          IN IF master_key = DecryptFailed
             THEN RecoverScan(table, file, username, recovery_code, new_master_password,
                              idx + 1, k, env)
             ELSE LET rec == Rotate(user_data, master_key, new_master_password,
                                    env[k].salt, env[k].iv, recovery_entry)
                      table2 == Put(table, username, rec)
                      file2 == save_database(table2, file, env[k].io)
                  IN IF env[k].io = "ok"
                     THEN [users |-> table2, db |-> file2, ok |-> TRUE,
                           msg |-> "Account recovered successfully",
                           val |-> master_key, saves |-> k]
                     \* the bare except catches the OSError of save_database
                     ELSE RecoverScan(table2, file2, username, recovery_code,
                                      new_master_password, idx + 1, k + 1, env)

recover_account(table, file, username, recovery_code, new_master_password, env) ==
  IF username \notin DOMAIN table
  THEN [users |-> table, db |-> file, ok |-> FALSE, msg |-> "User not found",
        val |-> None, saves |-> 0]
  ELSE RecoverScan(table, file, username, recovery_code, new_master_password, 1, 1, env)

\* the draws and write outcomes one call can meet: none when no entry opens
\* under the code, for then nothing is drawn and nothing is written
CallEnvs(username, recovery_code) ==
  IF username \in DOMAIN users
     /\ \E i \in 1..Len(users[username].recovery_data) :
          Opens(users[username].recovery_data[i], recovery_code)
  THEN Envs(MaxIOFailures - faults)
  ELSE {<<>>}

RecoverAccount(username, recovery_code, new_master_password) ==
  \E env \in CallEnvs(username, recovery_code) :
    \E r \in {recover_account(users, db, username, recovery_code, new_master_password, env)} :
       /\ r.saves > 0 => calls < MaxCalls
       /\ users' = r.users
       /\ db' = r.db
       /\ ret' = Call("recover", username, recovery_code, "", r.ok, FALSE, r.msg, r.val, r.saves)
       /\ curPw' = IF r.ok THEN [curPw EXCEPT ![username] = new_master_password] ELSE curPw
       /\ used' = IF r.ok THEN [used EXCEPT ![username] = Append(@, recovery_code)] ELSE used
       /\ calls' = IF r.saves > 0 THEN calls + 1 ELSE calls
       /\ faults' = faults + (IF r.ok THEN r.saves - 1 ELSE r.saves)
       /\ UNCHANGED <<issued, genKey, stored, peer>>

Next ==
  \/ \E u \in Usernames, p \in MasterPasswords : create_account(u, p)
  \/ \E u \in Usernames, p \in MasterPasswords : Login(u, p)
  \/ \E u \in Usernames, p \in MasterPasswords, s \in Services, w \in Plaintexts :
       add_password(u, p, s, w)
  \/ \E u \in Usernames, p \in MasterPasswords, s \in Services : GetPassword(u, p, s)
  \/ \E u \in Usernames, c \in TryCodes, p \in MasterPasswords : RecoverAccount(u, c, p)

Spec == Init /\ [][Next]_vars

(* ------------------------------ properties ----------------------------- *)
Count(seq, x) == Cardinality({i \in DOMAIN seq : seq[i] = x})
Last(seq) == seq[Len(seq)]
\* the payload an envelope was sealed around
Sealed(b64) == b64decode(b64)[4][4]

\* C1 (as claimed): a code that recovered an account once never recovers it
\* again, also when create_account issued the same digit string twice: no
\* code occurs twice among the successful recoveries of an account.
C1_CodeNeverAcceptedTwice ==
  \A u \in AllUsernames : \A i, j \in DOMAIN used[u] : i # j => used[u][i] # used[u][j]

\* C1 (amended): recovery entries are one-time use: a digit string issued k
\* times among the codes of an account is accepted by at most k
\* recover_account calls on it, so a code issued once is rejected by every
\* call after the one that succeeded with it.
C1_EntryUsedOnce ==
  \A u \in AllUsernames : \A c \in TryCodes : Count(used[u], c) <= Count(issued[u], c)

\* a used code was tried again and rejected
C1_Witness ==
  /\ ret.op = "recover"
  /\ ret.msg = "Invalid recovery code"
  /\ Count(used[ret.user], ret.secret) = 1
  /\ Count(issued[ret.user], ret.secret) = 1

\* C2: login succeeds exactly when it is given the current master password:
\* the one of create_account, or of the last recover_account that returned
\* success.
C2_LoginIffCurrentPassword ==
  (ret.op = "login" /\ ret.user \in DOMAIN users)
    => (ret.ok <=> ret.secret = curPw[ret.user])

\* C3: the master key of an account never changes: every successful login
\* and recover_account returns the key create_account generated, and the
\* active envelope and every recovery entry seal that key.
C3_MasterKeyInvariant ==
  /\ (ret.op \in {"login", "recover"} /\ ret.ok) => ret.val = genKey[ret.user]
  /\ \A u \in DOMAIN users :
       /\ Sealed(users[u].encrypted_master_key) = genKey[u]
       /\ \A i \in DOMAIN users[u].recovery_data :
            Sealed(users[u].recovery_data[i].encrypted_key) = genKey[u]

\* a login that succeeded after a recovery
C3_Witness ==
  /\ ret.op = "login"
  /\ ret.ok
  /\ used[ret.user] # <<>>

\* C4: a successful recover_account leaves the password map as it was, and
\* get_password with the new master password then returns, for every service
\* stored before, the plaintext last stored for it.
C4_RecoveryPreservesVault ==
  [][(ret'.op = "recover" /\ ret'.ok) =>
       /\ users'[ret'.user].passwords = users[ret'.user].passwords
       /\ DOMAIN users[ret'.user].passwords = DOMAIN stored[ret'.user]
       /\ \A s \in DOMAIN stored[ret'.user] :
            get_password(users', ret'.user, curPw'[ret'.user], s)
              = <<TRUE, "Password for service", <<"str", Last(stored[ret'.user][s])>> >>]_vars

\* a recovery that succeeded on an account with a stored password
C4_Witness ==
  /\ ret.op = "recover"
  /\ ret.ok
  /\ DOMAIN stored[ret.user] # {}

\* C5: an account has 10 - n recovery entries after n successful recoveries,
\* and every issued code not yet used still opens an entry.
C5_RecoveryCount ==
  \A u \in DOMAIN users :
    /\ Len(users[u].recovery_data) = NumRecoveryCodes - Len(used[u])
    /\ \A c \in TryCodes :
         Count(issued[u], c) > Count(used[u], c)
           => \E i \in DOMAIN users[u].recovery_data : Opens(users[u].recovery_data[i], c)

\* C6: a recover_account call that returns a failure leaves the account table
\* and the store as they were.
C6_FailedRecoveryChangesNothing ==
  [][(ret'.op = "recover" /\ ~ret'.ok) => (users' = users /\ db' = db)]_vars

\* C7: create_account for a username that exists returns "Username already
\* exists" with no codes, whatever the password, and leaves the account table
\* and the store as they were.
C7_DuplicateRejected ==
  [][(ret'.op = "create" /\ ret'.user \in DOMAIN users) =>
       /\ ~ret'.ok
       /\ ~ret'.raised
       /\ ret'.msg = "Username already exists"
       /\ ret'.val = <<>>
       /\ users' = users
       /\ db' = db]_vars

\* a second create_account with another password than the account's
C7_Witness ==
  /\ ret.op = "create"
  /\ ret.msg = "Username already exists"
  /\ ret.secret # curPw[ret.user]

\* C8: get_password with a password that logs in returns, for a stored
\* service, the plaintext of the most recent add_password for it, and
\* add_password for one service leaves the entries of the others as they were.
C8_StoreRetrieve ==
  [][/\ (ret'.op = "get" /\ ret'.ok) =>
          ret'.val = <<"str", Last(stored[ret'.user][ret'.service])>>
     /\ (ret'.op = "get" /\ login(users, ret'.user, ret'.secret)[1]
           /\ ret'.service \in DOMAIN stored[ret'.user]) => ret'.ok
     /\ (ret'.op = "add" /\ ret'.user \in DOMAIN users) =>
          \A s \in DOMAIN users[ret'.user].passwords \ {ret'.service} :
            users'[ret'.user].passwords[s] = users[ret'.user].passwords[s]]_vars

\* a password read back after it replaced an earlier one for the same service
C8_Witness ==
  /\ ret.op = "get"
  /\ ret.ok
  /\ Len(stored[ret.user][ret.service]) = 2
  /\ stored[ret.user][ret.service][1] # stored[ret.user][ret.service][2]

\* C9: login, get_password, and an add_password that fails authentication
\* change neither the account table nor the store.
C9_ReadOnly ==
  [][(\/ ret'.op \in {"login", "get"}
      \/ (ret'.op = "add" /\ ~ret'.ok /\ ~ret'.raised))
       => (users' = users /\ db' = db)]_vars

\* a login with the wrong password on an account that holds a password
C9_Witness ==
  /\ ret.op = "login"
  /\ ret.msg = "Invalid password"
  /\ DOMAIN stored[ret.user] # {}

\* what can be read off the store without a key: usernames and service names
\* aside, the salts, the envelopes and the ivs in front of them
StoreFields(file) ==
  UNION { LET rec == file.doc[u]
              fields ==
                {b64decode(rec.salt), b64decode(rec.encrypted_master_key)}
                  \cup {b64decode(rec.passwords[s]) : s \in DOMAIN rec.passwords}
                  \cup {b64decode(rec.recovery_data[i].salt) : i \in DOMAIN rec.recovery_data}
                  \cup {b64decode(rec.recovery_data[i].encrypted_key) :
                          i \in DOMAIN rec.recovery_data}
          IN fields \cup {f[2] : f \in {g \in fields : g[1] = "env"}}
        : u \in DOMAIN file.doc }

\* the secrets of the accounts: master passwords, recovery codes and service
\* passwords as bytes, master keys, and the keys derived under a stored salt
Secrets(file) ==
  LET texts == MasterPasswords \cup {CodeStr[i] : i \in DOMAIN CodeStr} \cup Plaintexts
      salts == {f \in StoreFields(file) : f[1] = "rand"}
  IN {encode(t) : t \in texts}
       \cup {genKey[u] : u \in AllUsernames}
       \cup {derive_key(t, salt) : t \in texts, salt \in salts}

\* C10: the store holds salts and sealed envelopes only: none of its fields
\* is a master password, a derived key, a master key, a recovery code or a
\* service password.
C10_NoPlaintextSecret ==
  \A f \in StoreFields(db) :
    /\ f \notin Secrets(db)
    /\ \/ f[1] = "env"
       \/ (f[1] = "rand" /\ f[2] \in {SaltLen, IvLen})

\* a store written after a password was added and a recovery was made
C10_Witness ==
  /\ db.kind = "json"
  /\ \E u \in DOMAIN db.doc :
       /\ DOMAIN db.doc[u].passwords # {}
       /\ Len(db.doc[u].recovery_data) < NumRecoveryCodes

\* C11: a create_account, add_password or recover_account call that returns
\* success has called save_database exactly once, after its changes to the
\* account table (the store holds the table it leaves), and one that returns
\* a failure has not called save_database at all.
C11_PersistOnceOrNever ==
  ret.op \in {"create", "add", "recover"} =>
    /\ ret.ok => (ret.saves = 1 /\ db = JsonDump(users))
    /\ (~ret.ok /\ ~ret.raised) => ret.saves = 0

\* C12: a call during which a write of the store failed reports that failure
\* as its own: it raises the I/O error, and returns none of "Invalid
\* password", "Invalid recovery code" or "User not found".
C12_IOFailureSurfaced ==
  [][faults' > faults =>
       /\ ret'.raised
       /\ ret'.msg \notin {"Invalid password", "Invalid recovery code", "User not found"}]_vars

(* ---------------- several manager instances on one store --------------- *)
\* the start of a run in which every write of the store succeeds
InitNoFaults ==
  /\ db = NoFile
  /\ users = load_database(NoFile)
  /\ ret = Call("init", "", "", "", TRUE, FALSE, "", None, 0)
  /\ issued = [u \in AllUsernames |-> <<>>]
  /\ genKey = [u \in AllUsernames |-> None]
  /\ curPw = [u \in AllUsernames |-> ""]
  /\ used = [u \in AllUsernames |-> <<>>]
  /\ stored = [u \in AllUsernames |-> [s \in {} |-> <<>>]]
  /\ calls = 0
  /\ faults = MaxIOFailures
  /\ peer = NotStarted

\* a second process constructs its manager: __init__ loads the store, here
\* once the store holds an account
StartPeer ==
  /\ ~peer.up
  /\ DOMAIN load_database(db) # {}
  /\ peer' = [up |-> TRUE, users |-> load_database(db)]
  /\ ret' = Call("start", "", "", "", TRUE, FALSE, "", None, 0)
  /\ UNCHANGED <<users, db, issued, genKey, curPw, used, stored, calls, faults>>

\* the next calls are made on the other instance; a call runs to its end
\* before the next one starts, on whichever instance
Switch ==
  /\ peer.up
  /\ users' = peer.users
  /\ peer' = [up |-> TRUE, users |-> users]
  /\ ret' = Call("switch", "", "", "", TRUE, FALSE, "", None, 0)
  /\ UNCHANGED <<db, issued, genKey, curPw, used, stored, calls, faults>>

NextInstances ==
  \/ \E u \in Usernames, p \in MasterPasswords : create_account(u, p)
  \/ \E u \in Usernames, p \in MasterPasswords, s \in Services, w \in Plaintexts :
       add_password(u, p, s, w)
  \/ \E u \in Usernames, c \in TryCodes, p \in MasterPasswords : RecoverAccount(u, c, p)
  \/ StartPeer
  \/ Switch

SpecInstances == InitNoFaults /\ [][NextInstances]_vars

\* C13: calls never overlap, and what a successful create_account,
\* add_password or recover_account did is in the store after every later
\* call of either instance: the account is there, it holds an entry for
\* every service a password was added for, sealing the last one added, and
\* the recovery entries taken off are still off.
C13_NoLostUpdate ==
  \A u \in AllUsernames :
    curPw[u] # "" =>
      /\ u \in DOMAIN db.doc
      /\ \A s \in DOMAIN stored[u] :
           /\ s \in DOMAIN db.doc[u].passwords
           /\ Sealed(db.doc[u].passwords[s]) = encode(Last(stored[u][s]))
      /\ Len(db.doc[u].recovery_data) <= NumRecoveryCodes - Len(used[u])

\* C17: once recover_account has succeeded with every entry issued for a
\* code, no instance accepts that code again and the store holds no entry
\* that the code opens.
C17_ConsumedEntryNeverReturns ==
  \A u \in AllUsernames : \A c \in TryCodes :
    /\ Count(used[u], c) <= Count(issued[u], c)
    /\ (u \in DOMAIN db.doc /\ Count(issued[u], c) > 0
          /\ Count(used[u], c) >= Count(issued[u], c))
         => \A i \in DOMAIN db.doc[u].recovery_data :
              ~Opens(db.doc[u].recovery_data[i], c)

(* ------------------ a process killed in save_database ------------------ *)
\* where the process can die: before open(db_file, 'w'), after it (the file
\* is truncated), inside json.dump, and after the file was closed
KillPoints == {"before_open", "after_open", "in_dump", "after_close"}

\* the file a process leaves that dies in save_database
save_database_killed(table, file, at) ==
  CASE at = "before_open" -> file
    [] at = "after_close" -> JsonDump(table)
    [] OTHER -> PartialFile

\* the process dies while a call writes `table`; the call never returns, and
\* the next process constructs its manager from the file as it was left
Killed(op, username, table) ==
  \E at \in KillPoints :
    /\ db' = save_database_killed(table, db, at)
    /\ users' = load_database(db')
    /\ ret' = Call("killed", username, op, "", FALSE, TRUE, at, JsonDump(table), 1)
    /\ calls' = calls + 1
    /\ UNCHANGED <<issued, genKey, curPw, used, stored, faults, peer>>

KilledInCreate(username, master_password) ==
  /\ username \notin DOMAIN users
  /\ calls < MaxCalls
  /\ \E salt \in generate_salt, iv \in Ivs, master_key \in MasterKeys :
       Killed("create", username,
              Put(users, username,
                  NewAccount(master_password, salt, iv, master_key, LoopDraws(1, FALSE))))

KilledInAdd(username, master_password, service, password) ==
  /\ username \in DOMAIN users
  /\ calls < MaxCalls
  /\ LET r == login(users, username, master_password)
         old == users[username]
     IN /\ r[1]
        /\ \E iv \in Ivs :
             Killed("add", username,
                    Put(users, username,
                        [old EXCEPT !.passwords =
                           SetItem(old.passwords, service,
                                   b64encode(encrypt_data(encode(password), r[3], iv)))]))

KilledInRecover(username, recovery_code, new_master_password) ==
  /\ calls < MaxCalls
  /\ \E env \in CallEnvs(username, recovery_code) :
       \E r \in {recover_account(users, db, username, recovery_code,
                                 new_master_password, env)} :
         /\ r.ok
         /\ Killed("recover", username, r.users)

NextCrash ==
  \/ \E u \in Usernames, p \in MasterPasswords : create_account(u, p)
  \/ \E u \in Usernames, p \in MasterPasswords, s \in Services, w \in Plaintexts :
       add_password(u, p, s, w)
  \/ \E u \in Usernames, c \in TryCodes, p \in MasterPasswords : RecoverAccount(u, c, p)
  \/ \E u \in Usernames, p \in MasterPasswords : KilledInCreate(u, p)
  \/ \E u \in Usernames, p \in MasterPasswords, s \in Services, w \in Plaintexts :
       KilledInAdd(u, p, s, w)
  \/ \E u \in Usernames, c \in TryCodes, p \in MasterPasswords : KilledInRecover(u, c, p)

SpecCrash == InitNoFaults /\ [][NextCrash]_vars

\* C14: when a process dies in save_database, the table the next process
\* loads is the whole table from before the interrupted call or the whole
\* table the call was writing, never an empty or cut-off one.
C14_CrashKeepsStore ==
  [][ret'.op = "killed" =>
       /\ db'.kind # "partial"
       /\ users' \in {load_database(db), load_database(ret'.val)}]_vars

\* the list without its element at position i
RemoveAt(lst, i) == SubSeq(lst, 1, i - 1) \o SubSeq(lst, i + 1, Len(lst))

\* the position of the first entry of a list that a code opens
FirstOpening(lst, recovery_code) ==
  CHOOSE i \in DOMAIN lst :
    /\ Opens(lst[i], recovery_code)
    /\ \A j \in 1..(i - 1) : ~Opens(lst[j], recovery_code)

\* C15: a recover_account call that returns success has taken exactly one
\* entry off the list, the first one in stored order that the code opens;
\* the other entries are as they were, in the order they had.
C15_FirstMatchConsumed ==
  [][(ret'.op = "recover" /\ ret'.ok) =>
       LET old == users[ret'.user].recovery_data
       IN users'[ret'.user].recovery_data
            = RemoveAt(old, FirstOpening(old, ret'.secret))]_vars

\* C16: get_password answers "User not found" for a username the table does
\* not hold, and for one it holds and a password that does not log in it
\* answers "Invalid password" whether or not the service has an entry; "No
\* password stored" is answered only to a password that logs in.
C16_AuthBeforeService ==
  /\ \A u \in AllUsernames, p \in MasterPasswords, s \in Services :
       LET g == get_password(users, u, p, s)
       IN /\ u \notin DOMAIN users => g = <<FALSE, "User not found", None>>
          /\ (u \in DOMAIN users /\ ~login(users, u, p)[1])
               => g = <<FALSE, "Invalid password", None>>
          /\ g[2] = "No password stored" => login(users, u, p)[1]
  /\ (ret.op = "get" /\ ret.user \in DOMAIN users /\ ~login(users, ret.user, ret.secret)[1])
       => (~ret.ok /\ ret.msg = "Invalid password" /\ ret.val = None)

\* get_password was called with a wrong password for a service without an
\* entry, on an account that holds a password for another service
C16_Witness ==
  /\ ret.op = "get"
  /\ ret.msg = "Invalid password"
  /\ ret.user \in DOMAIN users
  /\ DOMAIN users[ret.user].passwords # {}
  /\ ret.service \notin DOMAIN users[ret.user].passwords

(* -------------------- two accounts in one account table ---------------- *)
\* calls for both usernames, with one service and one password to store
NextAccounts ==
  \/ \E u \in AllUsernames, p \in MasterPasswords : create_account(u, p)
  \/ \E u \in AllUsernames, p \in MasterPasswords : Login(u, p)
  \/ \E u \in AllUsernames, p \in MasterPasswords : add_password(u, p, "github", "s3cr3t")
  \/ \E u \in AllUsernames, p \in MasterPasswords : GetPassword(u, p, "github")
  \/ \E u \in AllUsernames, c \in TryCodes, p \in MasterPasswords : RecoverAccount(u, c, p)

\* the account create_account("bob", "pw1") makes, with ten different codes
BobAccount ==
  NewAccount("pw1", <<"rand", SaltLen, 0>>, <<"rand", IvLen, 0>>,
             <<"rand", MasterKeyLen, 0>>, LoopDraws(1, FALSE))

\* the state after create_account("bob", "pw1") has returned success, which
\* was the first call of the run
InitAccounts ==
  /\ users = Put(EmptyTable, "bob", BobAccount)
  /\ db = JsonDump(users)
  /\ ret = Call("create", "bob", "pw1", "", TRUE, FALSE, "Account created successfully",
                [i \in 1..NumRecoveryCodes |-> CodeStr[i]], 1)
  /\ issued = [u \in AllUsernames |->
                 IF u = "bob" THEN [i \in 1..NumRecoveryCodes |-> CodeStr[i]] ELSE <<>>]
  /\ genKey = [u \in AllUsernames |->
                 IF u = "bob" THEN <<"rand", MasterKeyLen, 0>> ELSE None]
  /\ curPw = [u \in AllUsernames |-> IF u = "bob" THEN "pw1" ELSE ""]
  /\ used = [u \in AllUsernames |-> <<>>]
  /\ stored = [u \in AllUsernames |-> [s \in {} |-> <<>>]]
  /\ calls = 1
  /\ faults = 0
  /\ peer = NotStarted

SpecAccounts == InitAccounts /\ [][NextAccounts]_vars

\* C18: a call for a username, whether it succeeds or fails, leaves the
\* records of all other usernames in the account table as they were and
\* takes no username out of the table; every document it writes to the
\* store holds the records of the other usernames as they were.
C18_AccountIsolation ==
  [][ret'.op \in {"create", "login", "add", "get", "recover"} =>
       /\ DOMAIN users \subseteq DOMAIN users'
       /\ \A v \in DOMAIN users \ {ret'.user} : users'[v] = users[v]
       /\ (db' # db /\ db'.kind = "json") =>
            \A v \in DOMAIN users \ {ret'.user} :
              v \in DOMAIN db'.doc /\ db'.doc[v] = users[v]]_vars

\* a call for one username changed its record while the table held the
\* record of another username
C18_Witness ==
  /\ ret.op \in {"add", "recover"}
  /\ ret.ok
  /\ ret.user = "alice"
  /\ "bob" \in DOMAIN users
====
